---- MODULE Spec2Model ----
(***************************************************************************)
(* Model of FastAPI_thickness.py: six POST handlers that read a request    *)
(* body, stage it in a named temporary file, hand the path to the          *)
(* thickness_file processor, unlink the file and return the result, or     *)
(* catch any exception and return an error dictionary.  Every handler      *)
(* first obtains a logger from create_logger(), which is named after the   *)
(* current second and writes to ./Logs/<second>.log.                       *)
(***************************************************************************)
EXTENDS Integers, Sequences, FiniteSets, TLC

\* ------------------------------------------------------------------ bounds
NumRequests == 2        \* requests that may arrive
NumNames    == 2        \* random names the temporary-file facility can draw
MaxClock    == 1        \* seconds the wall clock can advance while requests arrive

Requests == 1..NumRequests
Stamps   == 0..MaxClock

\* --------------------------------------------------------------- constants
\* file_path = None
NoPath == <<>>
\* no logger bound yet / no value yet
NoLogger == -1
None == "None"
NoResponse == [pending |-> TRUE]

\* the six routes, in source order
Ops == {"xlsx_table", "txt_table", "xlsx_database", "txt_database",
        "xlsx_validation", "txt_validation"}

\* format named by the route's URL: /thickness/<format>/...
RouteFormat(o) ==
    CASE o = "xlsx_table"      -> "xlsx"
      [] o = "txt_table"       -> "txt"
      [] o = "xlsx_database"   -> "xlsx"
      [] o = "txt_database"    -> "txt"
      [] o = "xlsx_validation" -> "xlsx"
      [] o = "txt_validation"  -> "txt"

\* suffix= argument of each handler's NamedTemporaryFile call
Suffix(o) ==
    CASE o = "xlsx_table"      -> ".xlsx"
      [] o = "txt_table"       -> ".txt"
      [] o = "xlsx_database"   -> ".txt"
      [] o = "txt_database"    -> ".txt"
      [] o = "xlsx_validation" -> ".xlsx"
      [] o = "txt_validation"  -> ".xlsx"

\* thickness_file method each handler calls
Method(o) ==
    CASE o = "xlsx_table"      -> "table_of_df"
      [] o = "txt_table"       -> "table_of_df"
      [] o = "xlsx_database"   -> "thickness_ma_for_database"
      [] o = "txt_database"    -> "thickness_ma_for_database"
      [] o = "xlsx_validation" -> "validity_check"
      [] o = "txt_validation"  -> "validity_check"

\* request bodies: an empty upload and a non-empty one
Bodies == {"", "bytes"}

\* values a thickness_file method can return
Returns(m) ==
    CASE m = "table_of_df"               -> {[table |-> "rows"]}
      [] m = "thickness_ma_for_database" -> {[thickness |-> 1, ma |-> 2]}
      [] m = "validity_check"            -> {[valid |-> TRUE], [valid |-> FALSE]}

\* names tempfile can generate: <tempdir prefix, random part, suffix>
TempName(n, sfx) == <<"tmp", n, sfx>>
AllPaths == {TempName(n, sfx) : n \in 1..NumNames, sfx \in {".xlsx", ".txt"}}

\* a directory entry: owner = 0 means the name does not exist
NoFile == [owner |-> 0, data |-> ""]

VARIABLES
    pc,          \* position of each request's handler
    op,          \* route the request was posted to
    clock,       \* dt.datetime.now() at one-second resolution
    handlers,    \* logging registry: logger name -> number of FileHandlers attached
    logfile,     \* ./Logs/<stamp>.log: sequence of lines
    logger,      \* local variable logger: name of the logger the handler holds
    byte_data,   \* local variable byte_data
    temp_file,   \* temp_file.name once NamedTemporaryFile returned
    file_path,   \* local variable file_path
    fs,          \* temporary directory: path -> entry
    result,      \* value returned by the processor method
    exc,         \* str(e) of the exception being handled
    response,    \* what the handler returned
    unlinks,     \* number of os.unlink calls the request completed
    calls        \* number of thickness_file(...) constructions and method calls begun

vars == <<pc, op, clock, handlers, logfile, logger, byte_data, temp_file,
          file_path, fs, result, exc, response, unlinks, calls>>

\* ------------------------------------------------------------------ logging
Line(r, level, msg) == [req |-> r, level |-> level, msg |-> msg]

RECURSIVE Copies(_, _)
Copies(e, k) == IF k = 0 THEN <<>> ELSE <<e>> \o Copies(e, k - 1)

\* logger.info / logger.error: every handler attached to the logger appends
\* the line to its file, and all handlers of one name share one file
Emit(lf, name, lines) ==
    LET RECURSIVE All(_)
        All(s) == IF s = <<>> THEN <<>>
                  ELSE Copies(Head(s), handlers[name]) \o All(Tail(s))
    IN [lf EXCEPT ![name] = @ \o All(lines)]

\* ------------------------------------------------------------------ helpers
\* slip: the record carries file_path itself, None included
error_file_path_raw(fp) == fp

\* error_file_path = "Temporary file not created"
error_file_path(fp) == <<"Temporary file not created">>

\* {"error": str(e), "problematic_file": error_file_path}
ErrorRecord(e, fp) == [error |-> e, problematic_file |-> error_file_path(fp)]

\* slip: the except block returns without logging
ErrorLinesOmitted(r, e) == <<>>

\* slip: the trace is logged before the message
ErrorLinesTraceFirst(r, e) == << Line(r, "error", <<"traceback", e>>),
                                Line(r, "error", <<"error", e>>) >>

\* logger.error(f"Error ...: {e}"); logger.error(traceback.format_exc())
ErrorLines(r, e) == << Line(r, "error", <<"error", e>>),
                       Line(r, "error", <<"traceback", e>>) >>

\* slip: the two messages of staging are logged in the other order
StagedLinesSwapped(r, p) == << Line(r, "info", <<"created", p>>),
                               Line(r, "info", <<"received">>) >>

\* logger.info("Received ..."); logger.info(f"Temporary ... file created ... {file_path}")
StagedLines(r, p) == << Line(r, "info", <<"received">>),
                        Line(r, "info", <<"created", p>>) >>

\* slip: a name is drawn without checking that it is unused
FreeNamesUnchecked(sfx) == {p \in AllPaths : p[3] = sfx}

\* names NamedTemporaryFile may pick: O_EXCL creation never reuses an existing name
FreeNames(sfx) == {p \in AllPaths : p[3] = sfx /\ fs[p].owner = 0}

\* slip: the deletion is logged but not performed
os_unlink_skipped(dir, p) == dir

\* os.unlink(path): the directory without the entry
os_unlink(dir, p) == [dir EXCEPT ![p] = NoFile]

Init ==
    /\ pc = [r \in Requests |-> "idle"]
    /\ op = [r \in Requests |-> None]
    /\ clock = 0
    /\ handlers = [s \in Stamps |-> 0]
    /\ logfile = [s \in Stamps |-> <<>>]
    /\ logger = [r \in Requests |-> NoLogger]
    /\ byte_data = [r \in Requests |-> None]
    /\ temp_file = [r \in Requests |-> NoPath]
    /\ file_path = [r \in Requests |-> NoPath]
    /\ fs = [p \in AllPaths |-> NoFile]
    /\ result = [r \in Requests |-> NoResponse]
    /\ exc = [r \in Requests |-> None]
    /\ response = [r \in Requests |-> NoResponse]
    /\ unlinks = [r \in Requests |-> 0]
    /\ calls = [r \in Requests |-> [construct |-> 0, invoke |-> 0]]

\* dt.datetime.now().strftime('%Y-%m-%d_%H-%M-%S'): the clock is read only
\* here, so the time that passed since the last reading is chosen at the reading
Now(t) == t \in Stamps /\ t >= clock

\* slip: a handler is added only if the logger has none yet
create_logger_guarded(r, timestamp) ==
    /\ handlers' = [handlers EXCEPT ![timestamp] = IF @ = 0 THEN 1 ELSE @]
    /\ logger' = [logger EXCEPT ![r] = timestamp]

\* create_logger(): getLogger(timestamp) returns the one logger of that name,
\* FileHandler opens ./Logs/<timestamp>.log and is added to it
create_logger(r, timestamp) ==
    /\ handlers' = [handlers EXCEPT ![timestamp] = @ + 1]
    /\ logger' = [logger EXCEPT ![r] = timestamp]

\* handler entry: file_path = None; logger = create_logger(), before the try.
\* FileHandler's open() may raise OSError, which nothing catches.
\* Requests are numbered in the order in which they arrive.
Start(r) ==
    /\ pc[r] = "idle"
    /\ \A q \in Requests : q < r => pc[q] # "idle"
    /\ \E o \in Ops : op' = [op EXCEPT ![r] = o]
    /\ \E t \in Stamps :
          /\ Now(t)
          /\ clock' = t
          /\ \/ /\ create_logger(r, t)
                /\ pc' = [pc EXCEPT ![r] = "receive"]
                /\ UNCHANGED exc
             \/ /\ pc' = [pc EXCEPT ![r] = "raised"]
                /\ exc' = [exc EXCEPT ![r] = "open log file failed"]
                /\ UNCHANGED <<handlers, logger>>
    /\ UNCHANGED <<logfile, byte_data, temp_file, file_path, fs,
                   result, response, unlinks, calls>>

\* byte_data = await request.body()
Receive(r) ==
    /\ pc[r] = "receive"
    /\ \/ \E b \in Bodies :
             /\ byte_data' = [byte_data EXCEPT ![r] = b]
             /\ pc' = [pc EXCEPT ![r] = "create"]
             /\ UNCHANGED exc
       \/ /\ pc' = [pc EXCEPT ![r] = "except"]
          /\ exc' = [exc EXCEPT ![r] = "body read failed"]
          /\ UNCHANGED byte_data
    /\ UNCHANGED <<op, clock, handlers, logfile, logger, temp_file, file_path,
                   fs, result, response, unlinks, calls>>

\* temp_file = tempfile.NamedTemporaryFile(delete=False, suffix=...)
NamedTemporaryFile(r) ==
    /\ pc[r] = "create"
    /\ \/ \E p \in FreeNames(Suffix(op[r])) :
             /\ fs' = [fs EXCEPT ![p] = [owner |-> r, data |-> ""]]
             /\ temp_file' = [temp_file EXCEPT ![r] = p]
             /\ pc' = [pc EXCEPT ![r] = "write"]
             /\ UNCHANGED exc
       \/ /\ pc' = [pc EXCEPT ![r] = "except"]
          /\ exc' = [exc EXCEPT ![r] = "temporary file creation failed"]
          /\ UNCHANGED <<fs, temp_file>>
    /\ UNCHANGED <<op, clock, handlers, logfile, logger, byte_data, file_path,
                   result, response, unlinks, calls>>

\* slip: the temporary file is opened with delete=True semantics, so a failed
\* write or close removes it
WriteCloseAutoDelete(r) ==
    /\ pc[r] = "write"
    /\ \/ /\ fs' = [fs EXCEPT ![temp_file[r]].data = byte_data[r]]
          /\ file_path' = [file_path EXCEPT ![r] = temp_file[r]]
          /\ logfile' = Emit(logfile, logger[r], StagedLines(r, temp_file[r]))
          /\ pc' = [pc EXCEPT ![r] = "construct"]
          /\ UNCHANGED exc
       \/ /\ pc' = [pc EXCEPT ![r] = "except"]
          /\ exc' = [exc EXCEPT ![r] = "temporary file write failed"]
          /\ fs' = os_unlink(fs, temp_file[r])
          /\ UNCHANGED <<file_path, logfile>>
    /\ UNCHANGED <<op, clock, handlers, logger, byte_data, temp_file, result,
                   response, unlinks, calls>>

\* temp_file.write(byte_data); temp_file.close(); file_path = temp_file.name;
\* logger.info("Received ..."); logger.info("Temporary ... file created ...")
WriteClose(r) ==
    /\ pc[r] = "write"
    /\ \/ /\ fs' = [fs EXCEPT ![temp_file[r]].data = byte_data[r]]
          /\ file_path' = [file_path EXCEPT ![r] = temp_file[r]]
          /\ logfile' = Emit(logfile, logger[r], StagedLines(r, temp_file[r]))
          /\ pc' = [pc EXCEPT ![r] = "construct"]
          /\ UNCHANGED exc
       \/ /\ pc' = [pc EXCEPT ![r] = "except"]
          /\ exc' = [exc EXCEPT ![r] = "temporary file write failed"]
          /\ UNCHANGED <<fs, file_path, logfile>>
    /\ UNCHANGED <<op, clock, handlers, logger, byte_data, temp_file, result,
                   response, unlinks, calls>>

\* new_file = thickness_file(file_path)
Construct(r) ==
    /\ pc[r] = "construct"
    /\ calls' = [calls EXCEPT ![r].construct = @ + 1]
    /\ \/ /\ pc' = [pc EXCEPT ![r] = "invoke"]
          /\ UNCHANGED exc
       \/ /\ pc' = [pc EXCEPT ![r] = "except"]
          /\ exc' = [exc EXCEPT ![r] = "thickness_file failed"]
    /\ UNCHANGED <<op, clock, handlers, logfile, logger, byte_data, temp_file,
                   file_path, fs, result, response, unlinks>>

\* table = new_file.<method>(); logger.info("Processed ...")
Invoke(r) ==
    /\ pc[r] = "invoke"
    /\ calls' = [calls EXCEPT ![r].invoke = @ + 1]
    /\ \/ \E v \in Returns(Method(op[r])) :
             /\ result' = [result EXCEPT ![r] = v]
             /\ logfile' = Emit(logfile, logger[r],
                                << Line(r, "info", <<"processed">>) >>)
             /\ pc' = [pc EXCEPT ![r] = "unlink"]
             /\ UNCHANGED exc
       \/ /\ pc' = [pc EXCEPT ![r] = "except"]
          /\ exc' = [exc EXCEPT ![r] = "processor method failed"]
          /\ UNCHANGED <<result, logfile>>
    /\ UNCHANGED <<op, clock, handlers, logger, byte_data, temp_file,
                   file_path, fs, response, unlinks>>

\* slip: the deletion is logged before os.unlink is attempted
UnlinkLogFirst(r) ==
    /\ pc[r] = "unlink"
    /\ logfile' = Emit(logfile, logger[r],
                       << Line(r, "info", <<"deleted", file_path[r]>>) >>)
    /\ \/ /\ fs[file_path[r]].owner # 0
          /\ fs' = os_unlink(fs, file_path[r])
          /\ unlinks' = [unlinks EXCEPT ![r] = @ + 1]
          /\ pc' = [pc EXCEPT ![r] = "return"]
          /\ UNCHANGED exc
       \/ /\ pc' = [pc EXCEPT ![r] = "except"]
          /\ exc' = [exc EXCEPT ![r] = "unlink failed"]
          /\ UNCHANGED <<fs, unlinks>>
    /\ UNCHANGED <<op, clock, handlers, logger, byte_data, temp_file,
                   file_path, result, response, calls>>

\* os.unlink(file_path); logger.info("Temporary ... file deleted at ...")
Unlink(r) ==
    /\ pc[r] = "unlink"
    /\ \/ /\ fs[file_path[r]].owner # 0
          /\ fs' = os_unlink(fs, file_path[r])
          /\ unlinks' = [unlinks EXCEPT ![r] = @ + 1]
          /\ logfile' = Emit(logfile, logger[r],
                             << Line(r, "info", <<"deleted", file_path[r]>>) >>)
          /\ pc' = [pc EXCEPT ![r] = "return"]
          /\ UNCHANGED exc
       \/ /\ pc' = [pc EXCEPT ![r] = "except"]
          /\ exc' = [exc EXCEPT ![r] = "unlink failed"]
          /\ UNCHANGED <<fs, unlinks, logfile>>
    /\ UNCHANGED <<op, clock, handlers, logger, byte_data, temp_file,
                   file_path, result, response, calls>>

\* slip: the result is wrapped in a status envelope before it is returned
ReturnWrapped(r) ==
    /\ pc[r] = "return"
    /\ response' = [response EXCEPT ![r] = [status |-> "ok", data |-> result[r]]]
    /\ pc' = [pc EXCEPT ![r] = "done"]
    /\ byte_data' = [byte_data EXCEPT ![r] = None]
    /\ UNCHANGED <<op, clock, handlers, logfile, logger, temp_file,
                   file_path, fs, result, exc, unlinks, calls>>

\* return table.  byte_data is dropped with the handler's frame; the other
\* locals are kept as the record of the finished request.
Return(r) ==
    /\ pc[r] = "return"
    /\ response' = [response EXCEPT ![r] = result[r]]
    /\ pc' = [pc EXCEPT ![r] = "done"]
    /\ byte_data' = [byte_data EXCEPT ![r] = None]
    /\ UNCHANGED <<op, clock, handlers, logfile, logger, temp_file,
                   file_path, fs, result, exc, unlinks, calls>>

\* slip: the except block also unlinks the staged file, as a finally would
ExceptWithCleanup(r) ==
    /\ pc[r] = "except"
    /\ logfile' = Emit(logfile, logger[r], ErrorLines(r, exc[r]))
    /\ response' = [response EXCEPT ![r] = ErrorRecord(exc[r], file_path[r])]
    /\ fs' = IF file_path[r] # NoPath THEN os_unlink(fs, file_path[r]) ELSE fs
    /\ pc' = [pc EXCEPT ![r] = "done"]
    /\ byte_data' = [byte_data EXCEPT ![r] = None]
    /\ UNCHANGED <<op, clock, handlers, logger, temp_file,
                   file_path, result, exc, unlinks, calls>>

\* except Exception as e: logger.error(f"Error ...: {e}");
\* logger.error(traceback.format_exc()); return {"error": ..., "problematic_file": ...}
Except(r) ==
    /\ pc[r] = "except"
    /\ logfile' = Emit(logfile, logger[r], ErrorLines(r, exc[r]))
    /\ response' = [response EXCEPT ![r] = ErrorRecord(exc[r], file_path[r])]
    /\ pc' = [pc EXCEPT ![r] = "done"]
    /\ byte_data' = [byte_data EXCEPT ![r] = None]
    /\ UNCHANGED <<op, clock, handlers, logger, temp_file,
                   file_path, fs, result, exc, unlinks, calls>>

Next ==
    \/ \E r \in Requests : Start(r)
    \/ \E r \in Requests : Receive(r)
    \/ \E r \in Requests : NamedTemporaryFile(r)
    \/ \E r \in Requests : WriteClose(r)
    \/ \E r \in Requests : Construct(r)
    \/ \E r \in Requests : Invoke(r)
    \/ \E r \in Requests : Unlink(r)
    \/ \E r \in Requests : Return(r)
    \/ \E r \in Requests : Except(r)

Spec == Init /\ [][Next]_vars

\* ------------------------------------------------------------ vocabulary
\* the handler returned, or its exception left the handler
Terminated(r) == pc[r] \in {"done", "raised"}

\* the response is the dictionary {"error": ..., "problematic_file": ...}
IsErrorRecord(x) == DOMAIN x = {"error", "problematic_file"}

\* the handler returned a Processing Result
IsResult(x) == x # NoResponse /\ ~IsErrorRecord(x)

Placeholder == <<"Temporary file not created">>

\* suffix the format of the route stands for
HintSuffix(o) == IF RouteFormat(o) = "xlsx" THEN ".xlsx" ELSE ".txt"

\* processor method the operation table assigns to the route
TableMethod(o) ==
    CASE o \in {"xlsx_table", "txt_table"}           -> "table_of_df"
      [] o \in {"xlsx_database", "txt_database"}     -> "thickness_ma_for_database"
      [] o \in {"xlsx_validation", "txt_validation"} -> "validity_check"

\* the lines in the destination of the logger request r holds
DestLines(r) ==
    IF logger[r] = NoLogger THEN {}
    ELSE {logfile[logger[r]][i] : i \in DOMAIN logfile[logger[r]]}

\* r created a temporary file and has not unlinked it
HoldsArtifact(r) == temp_file[r] # NoPath /\ unlinks[r] = 0

\* ------------------------------------------------------------------ claims

\* C1: whenever a request ends with an Error Record, problematic_file is the
\* staged path if staging completed before the failure, and the placeholder
\* only if staging never completed.
C1_ProblematicFileIsStagedPath ==
    \A r \in Requests :
        (pc[r] = "done" /\ IsErrorRecord(response[r])) =>
            response[r].problematic_file =
                (IF file_path[r] # NoPath THEN file_path[r] ELSE Placeholder)

\* C2: on every request that staged its artifact, os.unlink of the staged path
\* has been performed exactly once when the request terminates, on the success
\* path and on every failure path; it is skipped only when creating the
\* artifact failed.
C2_ReleasedOnEveryPath ==
    \A r \in Requests :
        Terminated(r) =>
            /\ unlinks[r] <= 1
            /\ file_path[r] # NoPath => unlinks[r] = 1
            /\ file_path[r] = NoPath => unlinks[r] = 0

\* C3: whenever a request has a Processing Result to return or has returned
\* it, the artifact that request staged is no longer in the temporary
\* directory, whatever the other requests did in between.
C3_NoArtifactAfterSuccess ==
    \A r \in Requests :
        (pc[r] = "return" \/ (pc[r] = "done" /\ IsResult(response[r]))) =>
            /\ file_path[r] # NoPath
            /\ fs[file_path[r]].owner # r

C3_Witness ==
    \E r, q \in Requests :
        /\ r # q
        /\ pc[r] = "done" /\ IsResult(response[r])
        /\ pc[q] \in {"construct", "invoke", "unlink"}
        /\ fs[file_path[q]].owner = q

\* C4: a failure at any step of a handler, opening the per-request logger
\* included, ends in a normal response: no exception leaves the handler.
C4_NoExceptionPropagates ==
    \A r \in Requests :
        /\ pc[r] # "raised"
        /\ Terminated(r) => (IsResult(response[r]) \/ IsErrorRecord(response[r]))

\* C5: every operation creates its artifact with the suffix of its own format
\* (.xlsx for the three spreadsheet routes, .txt for the three text routes) and
\* calls the processor method the operation table assigns to it.
C5_SuffixAndMethodMatchOperation ==
    \A r \in Requests :
        /\ temp_file[r] # NoPath => temp_file[r][3] = HintSuffix(op[r])
        /\ result[r] # NoResponse => result[r] \in Returns(TableMethod(op[r]))

\* C6: two requests whose create_logger calls fall into the same second have
\* distinct log channels: no line written by one request is in the destination
\* of the other's logger.
C6_LogChannelsDistinct ==
    \A r, q \in Requests :
        (r # q /\ logger[r] # NoLogger /\ logger[q] # NoLogger) =>
            \A l \in DestLines(r) : l.req # q

\* C7: a request that created a temporary file has, when it terminates, written
\* a "deleted" line naming that file or an error line.
C7_CreatedArtifactIsAccounted ==
    \A r \in Requests :
        (Terminated(r) /\ temp_file[r] # NoPath) =>
            \E l \in DestLines(r) :
                /\ l.req = r
                /\ \/ l.msg = <<"deleted", temp_file[r]>>
                   \/ l.level = "error"

C7_Witness ==
    \E r, q \in Requests :
        /\ pc[r] = "done" /\ temp_file[r] # NoPath /\ IsErrorRecord(response[r])
        /\ pc[q] = "done" /\ temp_file[q] # NoPath /\ IsResult(response[q])

\* C8: the artifacts that requests hold at the same time (created, not yet
\* unlinked by their request) have pairwise distinct paths, also for identical
\* bodies, and each is still the file its own request created: no other
\* request's staging or release replaced or deleted it.
C8_ArtifactsDistinctAndOwned ==
    \A r \in Requests :
        HoldsArtifact(r) =>
            /\ fs[temp_file[r]].owner = r
            /\ \A q \in Requests :
                   (q # r /\ HoldsArtifact(q)) => temp_file[q] # temp_file[r]

C8_Witness ==
    \E r, q \in Requests :
        /\ r # q
        /\ pc[r] \in {"construct", "invoke", "unlink"} /\ HoldsArtifact(r)
        /\ pc[q] \in {"construct", "invoke", "unlink"} /\ HoldsArtifact(q)
        /\ temp_file[q][3] = temp_file[r][3]
        /\ byte_data[q] = byte_data[r]
        /\ fs[temp_file[q]].data = fs[temp_file[r]].data

\* C9: a request emits exactly one output, a Processing Result or an Error
\* Record and never both; an Error Record only if a step raised, a Processing
\* Result only if no step up to and including the release raised.
C9_ExactlyOneOutput ==
    \A r \in Requests :
        Terminated(r) =>
            /\ IsResult(response[r]) \/ IsErrorRecord(response[r])
            /\ IsErrorRecord(response[r]) => exc[r] # None
            /\ IsResult(response[r]) => exc[r] = None

\* C10: when the processor method returned a value (a verdict of invalid
\* included) and the release succeeded, the response is that value itself,
\* not wrapped and not an Error Record.
C10_ResultReturnedAsIs ==
    \A r \in Requests :
        (pc[r] = "done" /\ result[r] # NoResponse /\ unlinks[r] = 1) =>
            /\ response[r] = result[r]
            /\ ~IsErrorRecord(response[r])

C10_Witness ==
    \E r \in Requests :
        /\ pc[r] = "done"
        /\ result[r] = [valid |-> FALSE]
        /\ response[r] = [valid |-> FALSE]
\* the processor raised, in construction or in the designated method
ProcessorRaised(r) == exc[r] \in {"thickness_file failed", "processor method failed"}

\* the lines request r wrote, in the order of its logger's file, each line
\* once however many handlers repeated it
RECURSIVE Squeeze(_)
Squeeze(s) ==
    IF Len(s) <= 1 THEN s
    ELSE IF s[1] = s[2] THEN Squeeze(Tail(s))
         ELSE <<s[1]>> \o Squeeze(Tail(s))

WrittenBy(r) ==
    IF logger[r] = NoLogger THEN <<>>
    ELSE LET Mine(l) == l.req = r
         IN Squeeze(SelectSeq(logfile[logger[r]], Mine))

\* C11: when the processor raises after staging succeeded, the handler fails
\* without releasing: the staged file exists when the Error Record is
\* returned and in every later state, whatever the other requests do.
C11_ArtifactLeftOnProcessorFailure ==
    \A r \in Requests :
        ProcessorRaised(r) =>
            /\ file_path[r] # NoPath
            /\ unlinks[r] = 0
            /\ fs[file_path[r]].owner = r
            /\ pc[r] = "done" => IsErrorRecord(response[r])

C11_Witness ==
    \E r, q \in Requests :
        /\ r # q
        /\ pc[r] = "done" /\ exc[r] = "processor method failed"
        /\ fs[file_path[r]].owner = r
        /\ pc[q] = "done" /\ IsResult(response[q])
        /\ file_path[q][3] = file_path[r][3]

\* C12: a request that returns an Error Record has by then logged an error
\* line with the exception message and after it an error line with the trace;
\* the record has exactly the keys error (the message) and problematic_file.
C12_ErrorLoggedThenReturned ==
    \A r \in Requests :
        (pc[r] = "done" /\ exc[r] # None) =>
            /\ DOMAIN response[r] = {"error", "problematic_file"}
            /\ response[r].error = exc[r]
            /\ \E i, j \in DOMAIN logfile[logger[r]] :
                   /\ i < j
                   /\ logfile[logger[r]][i] = Line(r, "error", <<"error", exc[r]>>)
                   /\ logfile[logger[r]][j] = Line(r, "error", <<"traceback", exc[r]>>)
                   /\ \A k \in 1..i :
                          logfile[logger[r]][k] # Line(r, "error", <<"traceback", exc[r]>>)

C12_Witness ==
    \E r \in Requests :
        /\ pc[r] = "done" /\ exc[r] = "body read failed"
        /\ handlers[logger[r]] = 2

\* C13: on the success path the request's lines are, in this order, received,
\* created <path>, processed, deleted <path>, and no error line; a processed
\* line exists only once the method returned and a deleted line only once the
\* file was unlinked.
C13_SuccessLogOrder ==
    \A r \in Requests :
        /\ (pc[r] = "done" /\ IsResult(response[r])) =>
               WrittenBy(r) = << Line(r, "info", <<"received">>),
                                 Line(r, "info", <<"created", file_path[r]>>),
                                 Line(r, "info", <<"processed">>),
                                 Line(r, "info", <<"deleted", file_path[r]>>) >>
        /\ \A l \in DestLines(r) :
               l.req = r =>
                   /\ l.msg = <<"processed">> => result[r] # NoResponse
                   /\ l.msg[1] = "deleted" =>
                          /\ l.msg = <<"deleted", file_path[r]>>
                          /\ unlinks[r] = 1
                          /\ fs[file_path[r]].owner # r

C13_Witness ==
    \E r, q \in Requests :
        /\ r # q
        /\ pc[r] = "done" /\ IsResult(response[r])
        /\ pc[q] = "done" /\ IsResult(response[q])
        /\ logger[r] = logger[q]
\* some step of request r's handler
RequestStep(r) ==
    \/ Start(r) \/ Receive(r) \/ NamedTemporaryFile(r) \/ WriteClose(r)
    \/ Construct(r) \/ Invoke(r) \/ Unlink(r) \/ Return(r) \/ Except(r)

\* C14: every step returning or raising, a request that has arrived can stop
\* only in Respond-Success or Respond-Error, with exactly one of the two
\* outputs, takes no step after it, and constructs the processor and invokes
\* the designated method at most once each.
C14_EndsInOneTerminalState ==
    \A r \in Requests :
        /\ calls[r].construct <= 1
        /\ calls[r].invoke <= 1
        /\ (pc[r] # "idle" /\ ~ENABLED RequestStep(r)) =>
               /\ pc[r] = "done"
               /\ IsResult(response[r]) # IsErrorRecord(response[r])
        /\ pc[r] = "done" => ~ENABLED RequestStep(r)

\* C15: when reading the body fails or staging fails, the handler fails with
\* file_path still None: the processor is never constructed, os.unlink is
\* never called and the Error Record carries the placeholder.
C15_EarlyFailureKeepsNullPath ==
    \A r \in Requests :
        exc[r] \in {"body read failed", "temporary file creation failed",
                    "temporary file write failed"} =>
            /\ file_path[r] = NoPath
            /\ calls[r] = [construct |-> 0, invoke |-> 0]
            /\ unlinks[r] = 0
            /\ pc[r] \in {"except", "done"}
            /\ pc[r] = "done" =>
                   response[r] = [error |-> exc[r], problematic_file |-> Placeholder]

C15_Witness ==
    \E r, q \in Requests :
        /\ pc[r] = "done" /\ exc[r] = "body read failed"
        /\ pc[q] = "done" /\ exc[q] = "temporary file write failed"

\* C16: if os.unlink raises after the method returned, the request ends with
\* an Error Record carrying the unlink error; the computed result is not
\* returned, no deleted line is logged and the file stays.
C16_UnlinkFailureDiscardsResult ==
    \A r \in Requests :
        exc[r] = "unlink failed" =>
            /\ result[r] # NoResponse
            /\ unlinks[r] = 0
            /\ fs[file_path[r]].owner = r
            /\ \A l \in DestLines(r) : l.req = r => l.msg[1] # "deleted"
            /\ pc[r] = "done" =>
                   /\ IsErrorRecord(response[r])
                   /\ response[r].error = "unlink failed"
                   /\ response[r] # result[r]

C16_Witness ==
    \E r \in Requests :
        /\ pc[r] = "done" /\ exc[r] = "unlink failed"
        /\ result[r] = [valid |-> TRUE]

\* C17: if write or close raises after NamedTemporaryFile created the file,
\* the file is still there when the request terminates and afterwards, and
\* file_path was never assigned.
C17_UnrecordedFileStays ==
    \A r \in Requests :
        exc[r] = "temporary file write failed" =>
            /\ temp_file[r] # NoPath
            /\ file_path[r] = NoPath
            /\ fs[temp_file[r]].owner = r

C17_Witness ==
    \E r, q \in Requests :
        /\ r # q
        /\ pc[r] = "done" /\ exc[r] = "temporary file write failed"
        /\ pc[q] = "done" /\ IsResult(response[q])
        /\ file_path[q][3] = temp_file[r][3]

\* number of create_logger calls that returned the logger named s
Requested(s) == Cardinality({q \in Requests : logger[q] = s})

\* the lines a step appends to the file of stamp s
Appended(s) == SubSeq(logfile'[s], Len(logfile[s]) + 1, Len(logfile'[s]))

\* C18: handlers are never removed: in every step the number of handlers of
\* each logger name does not decrease and equals the number of create_logger
\* calls that returned that name, and a message logged under a name requested
\* k times is appended k times to the one file.
C18_HandlersAccumulate ==
    [][\A s \in Stamps :
          /\ handlers'[s] >= handlers[s]
          /\ handlers'[s] = Requested(s)'
          /\ Len(logfile'[s]) >= Len(logfile[s])
          /\ LET k == Requested(s)
                 added == Appended(s)
             IN added # <<>> =>
                    /\ k >= 1
                    /\ Len(added) % k = 0
                    /\ \A i \in 1..Len(added) :
                           /\ added[i] = added[((i - 1) \div k) * k + 1]
                           /\ (i + k <= Len(added)) => added[i] # added[i + k]
      ]_vars

C18_Witness ==
    \E s \in Stamps :
        /\ handlers[s] = 2
        /\ \E i \in 1..(Len(logfile[s]) - 1) :
               /\ logfile[s][i] = logfile[s][i + 1]
               /\ logfile[s][i].msg = <<"processed">>
====
